---- MODULE Spec2Model ----
(***************************************************************************)
(* Smart Money x Dropping Odds (1X2) alert: a model of                     *)
(* smart_money_and_dropping_alert.py.                                      *)
(*                                                                         *)
(* Text is a sequence of one-character strings.  A Python float-or-None is *)
(* a record [tag, num, den]: tag "none" is None, tag "num" is the rational *)
(* num/den in lowest terms with den > 0, and tag "raise" stands for an     *)
(* arithmetic exception escaping the expression.  A sign is "1", "X", "2"  *)
(* or "None".                                                              *)
(***************************************************************************)
EXTENDS Integers, Sequences, FiniteSets, TLC

VARIABLES
    nt_pc, nt_x, nt_y, nt_z,
    gh_pc, gh_cs, gh_tries, gh_last_err, gh_result, gh_log,
    rd_pc, rd_in, rd_out,
    pc, rerun, creds, smart_th, drop_th, mw, dr, mw_err, dr_err, debug,
    status, merged, correlated, alerts, next_alert, toasts, sends, posts,
    prev_alert_ids, prev_sends

normVars == <<nt_pc, nt_x, nt_y, nt_z>>
htmlVars == <<gh_pc, gh_cs, gh_tries, gh_last_err, gh_result, gh_log>>
rowVars == <<rd_pc, rd_in, rd_out>>
appVars ==
    <<pc, rerun, creds, smart_th, drop_th, mw, dr, mw_err, dr_err, debug,
      status, merged, correlated, alerts, next_alert, toasts, sends, posts,
      prev_alert_ids, prev_sends>>
vars == <<normVars, htmlVars, rowVars, appVars>>

(* ------------------------------ bounds -------------------------------- *)

\* Longest team-name text fed to _norm_team.
MaxLen == 7
\* Most percentages the regex finds in one signal row.
MaxPcts == 4
\* Most table rows of one feed in one refresh.
MaxRows == 2
\* Most table rows of one feed when only the join is run.
MaxJoinRows == 3

(* ------------------------------ numbers ------------------------------- *)

None == [tag |-> "none", num |-> 0, den |-> 1]

Raise == [tag |-> "raise", num |-> 0, den |-> 1]

Abs(i) == IF i < 0 THEN -i ELSE i

RECURSIVE Gcd(_, _)
Gcd(a, b) == IF b = 0 THEN a ELSE Gcd(b, a % b)

\* The float num/den, den # 0.
Float(n, d) ==
    LET g == Gcd(Abs(n), Abs(d))
        s == IF d < 0 THEN -1 ELSE 1
    IN [tag |-> "num", num |-> (s * n) \div g, den |-> (s * d) \div g]

IsNone(v) == v.tag = "none"

Lt(a, b) == a.num * b.den < b.num * a.den

Ge(a, b) == a.num * b.den >= b.num * a.den

Sub(a, b) == Float(a.num * b.den - b.num * a.den, a.den * b.den)

Mul(a, b) == Float(a.num * b.num, a.den * b.den)

\* Python's a / b on floats: ZeroDivisionError when b is 0.
Div(a, b) == IF b.num = 0 THEN Raise ELSE Float(a.num * b.den, a.den * b.num)

(* -------------------------------- text -------------------------------- *)

Whitespace == {" ", "\t"}

LowerChar(c) == IF c = "F" THEN "f" ELSE IF c = "C" THEN "c" ELSE c

Lower(s) == [i \in 1..Len(s) |-> LowerChar(s[i])]

RECURSIVE LStrip(_)
LStrip(s) ==
    IF s # <<>> /\ Head(s) \in Whitespace THEN LStrip(Tail(s)) ELSE s

RECURSIVE RStrip(_)
RStrip(s) ==
    IF s # <<>> /\ s[Len(s)] \in Whitespace
    THEN RStrip(SubSeq(s, 1, Len(s) - 1))
    ELSE s

Strip(s) == LStrip(RStrip(s))

\* re.sub(r"\s+<tok>$", "", s): the text ends in tok preceded by one or more
\* whitespace characters; the leftmost match takes the whole run.  s ends in
\* no line break here (it was stripped), so $ is the end of the text.
SubSuffix(s, tok) ==
    LET k == Len(s) - Len(tok)
    IN IF k >= 1 /\ SubSeq(s, k + 1, Len(s)) = tok /\ s[k] \in Whitespace
       THEN RStrip(SubSeq(s, 1, k))
       ELSE s

\* re.sub(r"\s{2,}", " ", s): every maximal run of two or more whitespace
\* characters becomes one space; a lone whitespace character is kept.
RECURSIVE Collapse(_)
Collapse(s) ==
    IF s = <<>> THEN <<>>
    ELSE IF Len(s) >= 2 /\ s[1] \in Whitespace /\ s[2] \in Whitespace
         THEN <<" ">> \o Collapse(LStrip(s))
         ELSE <<Head(s)>> \o Collapse(Tail(s))

\* _match_key passes str(...), so the isinstance guard never refuses.
_norm_team(x) ==
    LET x1 == Lower(Strip(x))
        x2 == SubSuffix(x1, <<"f", "c">>)
        x3 == SubSuffix(x2, <<"c", "f">>)
    IN Collapse(x3)

(* -------------------------------- dates -------------------------------- *)

\* datetime.now().year
CurrentYear == 2026

DaysIn(m) == IF m = 2 THEN 28 ELSE IF m \in {4, 6, 9, 11} THEN 30 ELSE 31

\* A date cell: fmt "dmon" is "<d> <Mon>", "slash" is "<d>/<m>", "text" is a
\* cell that is no date (d and m then only tell such cells apart).  y = 0:
\* the cell carries no year.  fmt "iso" is the formatted "%Y-%m-%d" text.
DateText(fmt, d, m) == [fmt |-> fmt, y |-> 0, m |-> m, d |-> d]

\* pd.to_datetime(f"{s} {year}", errors="coerce", dayfirst=True) is NaT.
IsNaT(s) ==
    \/ s.fmt \notin {"dmon", "slash"}
    \/ s.m \notin 1..12
    \/ s.d \notin 1..DaysIn(s.m)

_extract_date(s) ==
    IF IsNaT(s) THEN s
    ELSE [fmt |-> "iso", y |-> CurrentYear, m |-> s.m, d |-> s.d]

_match_key(row) ==
    <<_extract_date(row.date), _norm_team(row.home), _norm_team(row.away)>>

(* --------------------------- dominant outcome ------------------------- *)

Signs == {"1", "X", "2"}

\* Iteration order of the dict literals {"1": ..., "X": ..., "2": ...}.
SignOrder == <<"1", "X", "2">>

\* lambda k: m[k] if m[k] is not None else -1
SortKey(m, k) == IF IsNone(m[k]) THEN Float(-1, 1) ELSE m[k]

\* max(m, key=...): the first key, in iteration order, whose sort key no
\* later key exceeds.
RECURSIVE MaxFrom_last(_, _, _)
\* max taking the last of equal keys instead of the first.
MaxFrom_last(m, best, i) ==
    IF i > Len(SignOrder) THEN best
    ELSE IF ~Lt(SortKey(m, SignOrder[i]), SortKey(m, best))
         THEN MaxFrom_last(m, SignOrder[i], i + 1)
         ELSE MaxFrom_last(m, best, i + 1)

RECURSIVE MaxFrom(_, _, _)
MaxFrom(m, best, i) ==
    IF i > Len(SignOrder) THEN best
    ELSE IF Lt(SortKey(m, best), SortKey(m, SignOrder[i]))
         THEN MaxFrom(m, SignOrder[i], i + 1)
         ELSE MaxFrom(m, best, i + 1)

PyMax(m) == MaxFrom(m, SignOrder[1], 2)

Dominant(m) ==
    IF \E k \in Signs : ~IsNone(m[k])
    THEN LET s == PyMax(m) IN [sign |-> s, pct |-> m[s]]
    ELSE [sign |-> "None", pct |-> None]

(* ----------------------------- row decoding --------------------------- *)

\* len(tds) < 10: continue
MinCells == 10

\* drop_pct without its test of o == 0.
drop_pct_nozero(o, n) ==
    IF IsNone(o) \/ IsNone(n) THEN None
    ELSE LET q == Div(Sub(o, n), o)
         IN IF q.tag = "raise" THEN Raise ELSE Mul(q, Float(100, 1))

\* def drop_pct(o, n) of fetch_dropping
drop_pct(o, n) ==
    IF IsNone(o) \/ IsNone(n) \/ o.num = 0 THEN None
    ELSE LET q == Div(Sub(o, n), o)
         IN IF q.tag = "raise" THEN Raise ELSE Mul(q, Float(100, 1))

\* One row of the Moneyway table.  cells.pcts: what pct_re.findall finds in
\* cells 4..11, each parsed by _num.
MoneywayRow(cells) ==
    LET pcts == cells.pcts
        pct_map == [k \in Signs |->
                      IF k = "1" THEN (IF Len(pcts) >= 1 THEN pcts[1] ELSE None)
                      ELSE IF k = "X" THEN (IF Len(pcts) >= 2 THEN pcts[2] ELSE None)
                      ELSE (IF Len(pcts) >= 3 THEN pcts[3] ELSE None)]
        dom == Dominant(pct_map)
        row == [date |-> cells.date, home |-> cells.home, away |-> cells.away,
                pct |-> pct_map,
                smart_sign |-> dom.sign, smart_pct |-> dom.pct]
    IN [date |-> row.date, home |-> row.home, away |-> row.away,
        pct |-> row.pct, smart_sign |-> row.smart_sign,
        smart_pct |-> row.smart_pct, match_key |-> _match_key(row)]

\* One row of the Dropping odds table.  cells.odds: fnum(4) .. fnum(9), that
\* is open and now of outcome 1, then of X, then of 2.
DroppingRow(cells) ==
    LET o == cells.odds
        dm == [k \in Signs |->
                 IF k = "1" THEN drop_pct(o[1], o[2])
                 ELSE IF k = "X" THEN drop_pct(o[3], o[4])
                 ELSE drop_pct(o[5], o[6])]
        dom == Dominant(dm)
        row == [date |-> cells.date, home |-> cells.home, away |-> cells.away]
    IN [date |-> row.date, home |-> row.home, away |-> row.away,
        odds |-> o, drop |-> dm, drop_sign |-> dom.sign,
        drop_pct |-> dom.pct, match_key |-> _match_key(row)]

RECURSIVE DecodeRows(_, _, _)
\* for tr in table.select("tbody tr"): rows of fewer than MinCells cells are
\* skipped, the others decoded in table order.
DecodeRows(trs, i, kind) ==
    IF i > Len(trs) THEN <<>>
    ELSE IF trs[i].ncells < MinCells THEN DecodeRows(trs, i + 1, kind)
         ELSE <<IF kind = "mw" THEN MoneywayRow(trs[i]) ELSE DroppingRow(trs[i])>>
              \o DecodeRows(trs, i + 1, kind)

\* fetch_moneyway / fetch_dropping on the document _get_html returned: an
\* empty frame when the document has no table.
ParseFeed(doc, kind) ==
    IF ~doc.table THEN <<>> ELSE DecodeRows(doc.rows, 1, kind)

(* ------------------- states of the parts not running ------------------ *)

NormIdle == nt_pc = "idle" /\ nt_x = <<>> /\ nt_y = <<>> /\ nt_z = <<>>

HtmlIdle ==
    /\ gh_pc = "idle" /\ gh_cs = FALSE /\ gh_tries = 0
    /\ gh_last_err = "None" /\ gh_result = "" /\ gh_log = <<>>

RowIdle == rd_pc = "idle" /\ rd_in = <<>> /\ rd_out = <<>>

AppIdle ==
    /\ pc = "idle" /\ rerun = FALSE /\ creds = FALSE
    /\ smart_th = None /\ drop_th = None
    /\ mw = <<>> /\ dr = <<>> /\ mw_err = FALSE /\ dr_err = FALSE
    /\ debug = FALSE /\ status = "" /\ merged = <<>> /\ correlated = FALSE
    /\ alerts = <<>> /\ next_alert = 1
    /\ toasts = <<>> /\ sends = <<>> /\ posts = <<>>
    /\ prev_alert_ids = {} /\ prev_sends = <<>>

(* ------------------------- _norm_team, applied ------------------------ *)

Alphabet == {"a", "f", "c", "F", " ", "\t"}

TeamTexts == UNION {[1..n -> Alphabet] : n \in 0..MaxLen}

NormInit ==
    /\ nt_pc = "input" /\ nt_x \in TeamTexts /\ nt_y = <<>> /\ nt_z = <<>>
    /\ HtmlIdle /\ RowIdle /\ AppIdle

\* y = _norm_team(x)
Normalize ==
    /\ nt_pc = "input"
    /\ nt_y' = _norm_team(nt_x)
    /\ nt_pc' = "once"
    /\ UNCHANGED <<nt_x, nt_z, htmlVars, rowVars, appVars>>

\* z = _norm_team(y)
Renormalize ==
    /\ nt_pc = "once"
    /\ nt_z' = _norm_team(nt_y)
    /\ nt_pc' = "twice"
    /\ UNCHANGED <<nt_x, nt_y, htmlVars, rowVars, appVars>>

NormNext == Normalize \/ Renormalize

SpecNorm == NormInit /\ [][NormNext]_vars

(* ------------------------------ _get_html ----------------------------- *)

\* for _ in range(3)
Attempts == 3

\* What one GET comes to: "error" is an exception from the request or from
\* raise_for_status, "short" a body that is empty or of at most 500
\* characters, "long" a body of more than 500 characters.
Responses ==
    {[kind |-> "error", id |-> "E1"], [kind |-> "error", id |-> "E2"],
     [kind |-> "short", id |-> "S1"],
     [kind |-> "long", id |-> "B1"], [kind |-> "long", id |-> "B2"]}

HtmlInit ==
    /\ gh_pc = "cloudscraper" /\ gh_cs \in BOOLEAN /\ gh_tries = 0
    /\ gh_last_err = "None" /\ gh_result = "" /\ gh_log = <<>>
    /\ NormIdle /\ RowIdle /\ AppIdle

\* 1) cloudscraper: the import may fail; any exception is passed over.
CloudScraper ==
    /\ gh_pc = "cloudscraper"
    /\ \/ /\ ~gh_cs
          /\ gh_pc' = "warmup"
          /\ UNCHANGED <<gh_result, gh_log>>
       \/ /\ gh_cs
          /\ \E r \in Responses :
               /\ gh_log' = Append(gh_log, [req |-> "scraper", resp |-> r])
               /\ IF r.kind = "long"
                  THEN gh_pc' = "returned" /\ gh_result' = r.id
                  ELSE gh_pc' = "warmup" /\ UNCHANGED gh_result
    /\ UNCHANGED <<gh_cs, gh_tries, gh_last_err, normVars, rowVars, appVars>>

\* 2) session: s.get("https://arbworld.net/"), its failure passed over.
WarmUp ==
    /\ gh_pc = "warmup"
    /\ \E ok \in BOOLEAN :
         gh_log' = Append(gh_log,
                     [req |-> "warmup",
                      resp |-> [kind |-> IF ok THEN "short" ELSE "error",
                                id |-> "W"]])
    /\ gh_pc' = "session"
    /\ UNCHANGED <<gh_cs, gh_tries, gh_last_err, gh_result,
                   normVars, rowVars, appVars>>

\* last_err set anew on every pass, so a later pass without an exception
\* forgets the earlier one.
NextLastErr_forget(last_err, r) == IF r.kind = "error" THEN r.id ELSE "None"

\* except Exception as e: last_err = e
NextLastErr(last_err, r) == IF r.kind = "error" THEN r.id ELSE last_err

\* One pass of the for loop.
SessionGet ==
    /\ gh_pc = "session"
    /\ gh_tries < Attempts
    /\ \E r \in Responses :
         /\ gh_log' = Append(gh_log, [req |-> "get", resp |-> r])
         /\ gh_tries' = gh_tries + 1
         /\ gh_last_err' = NextLastErr(gh_last_err, r)
         /\ IF r.kind = "long"
            THEN gh_pc' = "returned" /\ gh_result' = r.id
            ELSE UNCHANGED <<gh_pc, gh_result>>
    /\ UNCHANGED <<gh_cs, normVars, rowVars, appVars>>

\* After the loop: if last_err: raise last_err; return "".
LoopExit ==
    /\ gh_pc = "session"
    /\ gh_tries = Attempts
    /\ IF gh_last_err # "None"
       THEN gh_pc' = "raised" /\ gh_result' = gh_last_err
       ELSE gh_pc' = "returned" /\ gh_result' = ""
    /\ UNCHANGED <<gh_cs, gh_tries, gh_last_err, gh_log,
                   normVars, rowVars, appVars>>

HtmlNext == CloudScraper \/ WarmUp \/ SessionGet \/ LoopExit

SpecHtml == HtmlInit /\ [][HtmlNext]_vars

(* --------------------------- one row, decoded -------------------------- *)

\* Percentages pct_re can find: digits, optionally with a fraction, so never
\* negative.
PctValues == {Float(0, 1), Float(5, 1), Float(25, 2), Float(92, 1)}

PctLists == UNION {[1..n -> PctValues] : n \in 0..MaxPcts}

\* What fnum gives for an odds cell: None, or the number in the cell.
OddsValues == {None, Float(0, 1), Float(2, 1), Float(21, 10), Float(5, 2)}

OddsLists == [1..6 -> OddsValues]

NoOdds == [i \in 1..6 |-> None]

Cells(date, home, away, pcts, odds) ==
    [ncells |-> MinCells, date |-> date, home |-> home, away |-> away,
     pcts |-> pcts, odds |-> odds]

RowInit ==
    /\ rd_pc = "input"
    /\ \/ \E p \in PctLists :
            rd_in = [kind |-> "mw",
                     cells |-> Cells(DateText("dmon", 28, 10), <<"a">>, <<"c">>,
                                     p, NoOdds)]
       \/ \E o \in OddsLists :
            rd_in = [kind |-> "dr",
                     cells |-> Cells(DateText("dmon", 28, 10), <<"a">>, <<"c">>,
                                     <<>>, o)]
    /\ rd_out = <<>>
    /\ NormIdle /\ HtmlIdle /\ AppIdle

\* The body of fetch_moneyway's loop on one row.
DecodeMoneyway ==
    /\ rd_pc = "input"
    /\ rd_in.kind = "mw"
    /\ rd_out' = MoneywayRow(rd_in.cells)
    /\ rd_pc' = "moneyway"
    /\ UNCHANGED <<rd_in, normVars, htmlVars, appVars>>

\* The body of fetch_dropping's loop on one row.
DecodeDropping ==
    /\ rd_pc = "input"
    /\ rd_in.kind = "dr"
    /\ rd_out' = DroppingRow(rd_in.cells)
    /\ rd_pc' = "dropping"
    /\ UNCHANGED <<rd_in, normVars, htmlVars, appVars>>

RowNext == DecodeMoneyway \/ DecodeDropping

SpecRow == RowInit /\ [][RowNext]_vars

(* ------------------------------ the feeds ------------------------------ *)

Oct28 == DateText("dmon", 28, 10)

Oct28Slash == DateText("slash", 28, 10)

Feb31 == DateText("dmon", 31, 2)

Short(cells) == [cells EXCEPT !.ncells = MinCells - 1]

\* Rows of the Moneyway table.
MwCells ==
    {Cells(Oct28, <<"a", " ", "F", "C">>, <<"c">>,
           <<Float(92, 1), Float(5, 1), Float(0, 1)>>, NoOdds),
     Cells(Oct28Slash, <<"a">>, <<"c">>,
           <<Float(5, 1), Float(92, 1)>>, NoOdds),
     Cells(Feb31, <<"f">>, <<"c">>, <<Float(5, 1), Float(92, 1)>>, NoOdds),
     Cells(Feb31, <<"f">>, <<"c">>, <<>>, NoOdds),
     Short(Cells(Oct28, <<"a">>, <<"c">>, <<Float(92, 1)>>, NoOdds))}

\* Rows of the Dropping odds table.
DrCells ==
    {Cells(Oct28, <<"a">>, <<"c", " ", " ", "c", "f">>, <<>>,
           <<Float(5, 2), Float(2, 1), Float(2, 1), Float(2, 1),
             Float(2, 1), Float(21, 10)>>),
     Cells(Oct28, <<"a">>, <<"c">>, <<>>,
           <<None, None, Float(5, 2), Float(2, 1), None, Float(2, 1)>>),
     Cells(Feb31, <<"f">>, <<"c">>, <<>>,
           <<Float(2, 1), Float(21, 10), Float(0, 1), Float(2, 1), None, None>>),
     Short(Cells(Oct28, <<"a">>, <<"c">>, <<>>,
           <<Float(5, 2), Float(2, 1), None, None, None, None>>))}

\* The rows the refreshes of build_app are run on.
AppMwCells == {c \in MwCells : c.date # Feb31}

AppDrCells == {c \in DrCells : c.date # Feb31}

NoTable == [table |-> FALSE, rows |-> <<>>]

\* The documents a fetch can bring: one with no table (the empty text
\* _get_html may return is one), or a table of up to n rows.
Docs(cells, n) ==
    {NoTable} \cup
    {[table |-> TRUE, rows |-> r] : r \in UNION {[1..k -> cells] : k \in 0..n}}

\* What fetch_moneyway / fetch_dropping come to: an exception out of
\* _get_html, or the document it returned.
FetchOutcomes(cells, n) ==
    {[raised |-> TRUE, doc |-> NoTable]} \cup
    {[raised |-> FALSE, doc |-> d] : d \in Docs(cells, n)}

\* st.number_input("Smart money >= %", min_value=50.0, max_value=100.0)
SmartThresholds == {Float(92, 1), Float(93, 1)}

\* st.number_input("Drop >= %", min_value=1.0, max_value=50.0, step=0.5)
DropThresholds == {Float(20, 1), Float(41, 2)}

(* ------------------------ correlation and alerts ----------------------- *)

RECURSIVE MergeRow(_, _, _)
\* The pairs of one left row, in right-frame order.
MergeRow(l, right, j) ==
    IF j > Len(right) THEN <<>>
    ELSE (IF l.match_key = right[j].match_key
          THEN <<[mw |-> l, dr |-> right[j]]>> ELSE <<>>)
         \o MergeRow(l, right, j + 1)

RECURSIVE MergeFrom(_, _, _)
MergeFrom(left, right, i) ==
    IF i > Len(left) THEN <<>>
    ELSE MergeRow(left[i], right, 1) \o MergeFrom(left, right, i + 1)

RECURSIVE MergeCol(_, _, _)
MergeCol(left, r, i) ==
    IF i > Len(left) THEN <<>>
    ELSE (IF left[i].match_key = r.match_key
          THEN <<[mw |-> left[i], dr |-> r]>> ELSE <<>>)
         \o MergeCol(left, r, i + 1)

RECURSIVE MergeColsFrom(_, _, _)
MergeColsFrom(left, right, j) ==
    IF j > Len(right) THEN <<>>
    ELSE MergeCol(left, right[j], 1) \o MergeColsFrom(left, right, j + 1)

\* The join in the order of the right frame's rows.
Merge_rightOrder(left, right) == MergeColsFrom(left, right, 1)

\* mw.merge(dr, on="match_key", suffixes=("_mw", "_dr"), how="inner"): the
\* inner join keeps the order of the left keys.
Merge(left, right) == MergeFrom(left, right, 1)

\* merged["smart_sign"] == merged["drop_sign"], element by element: a None
\* on either side compares False.
SignEq(a, b) == a # "None" /\ b # "None" /\ a = b

\* merged[col] >= th, element by element: a missing value compares False.
GeTh(v, th) == ~IsNone(v) /\ Ge(v, th)

\* cond with drop_pct > drop_th in place of >=.
AlertCond_strict(p, sth, dth) ==
    /\ SignEq(p.mw.smart_sign, p.dr.drop_sign)
    /\ GeTh(p.mw.smart_pct, sth)
    /\ ~IsNone(p.dr.drop_pct) /\ Lt(dth, p.dr.drop_pct)

\* cond of build_app
AlertCond(p, sth, dth) ==
    /\ SignEq(p.mw.smart_sign, p.dr.drop_sign)
    /\ GeTh(p.mw.smart_pct, sth)
    /\ GeTh(p.dr.drop_pct, dth)

\* merged.loc[cond]
Triggered(m, sth, dth) == SelectSeq(m, LAMBDA p : AlertCond(p, sth, dth))

\* Series.round(2): to hundredths, halves to the even neighbour.
Round2(v) ==
    IF IsNone(v) THEN None
    ELSE LET t == 100 * v.num
             q == t \div v.den
             r == t % v.den
             up == 2 * r > v.den \/ (2 * r = v.den /\ q % 2 = 1)
         IN Float(IF up THEN q + 1 ELSE q, 100)

(* ------------------------------ build_app ------------------------------ *)

\* The text of one alert: Date, Home, Away and Sign of the pretty row, and
\* its rounded percentages.
AlertMsg(p) ==
    [date |-> p.mw.date, home |-> p.mw.home, away |-> p.mw.away,
     sign |-> p.mw.smart_sign,
     smart |-> Round2(p.mw.smart_pct), drop |-> Round2(p.dr.drop_pct)]

\* The test with "and" in place of "or".
Insufficient_both(l, r) == l = <<>> /\ r = <<>>

\* if mw.empty or dr.empty
Insufficient(l, r) == l = <<>> \/ r = <<>>

\* send_telegram without its try/except.
send_telegram_unguarded(configured, ok) ==
    IF ~configured
    THEN [post |-> FALSE, raises |-> FALSE]
    ELSE [post |-> TRUE, raises |-> ~ok]

\* send_telegram(msg), ok telling whether requests.post goes through: does
\* it post, and does an exception leave it.
send_telegram(configured, ok) ==
    IF ~configured
    THEN [post |-> FALSE, raises |-> FALSE]
    ELSE [post |-> TRUE, raises |-> FALSE]

\* try: mw = fetch_...() except Exception: mw = pd.DataFrame()
FetchedFrame(o, kind) == IF o.raised THEN <<>> ELSE ParseFeed(o.doc, kind)

\* rerun: build_app has run before in this session.  prev_alert_ids and
\* prev_sends are what the preceding execution alerted on and handed to
\* send_telegram: a record of the past, not program state.
AppInit ==
    /\ pc = "fetch_mw" /\ rerun = FALSE /\ creds \in BOOLEAN
    /\ smart_th \in SmartThresholds /\ drop_th \in DropThresholds
    /\ mw = <<>> /\ dr = <<>> /\ mw_err = FALSE /\ dr_err = FALSE
    /\ debug = FALSE /\ status = "running" /\ merged = <<>>
    /\ correlated = FALSE /\ alerts = <<>> /\ next_alert = 1
    /\ toasts = <<>> /\ sends = <<>> /\ posts = <<>>
    /\ prev_alert_ids = {} /\ prev_sends = <<>>
    /\ NormIdle /\ HtmlIdle /\ RowIdle

FetchMoneyway ==
    /\ pc = "fetch_mw"
    /\ \E o \in FetchOutcomes(AppMwCells, MaxRows) :
         /\ mw' = FetchedFrame(o, "mw")
         /\ mw_err' = o.raised
    /\ pc' = "fetch_dr"
    /\ UNCHANGED <<rerun, creds, smart_th, drop_th, dr, dr_err, debug, status,
                   merged, correlated, alerts, next_alert, toasts, sends,
                   posts, prev_alert_ids, prev_sends,
                   normVars, htmlVars, rowVars>>

FetchDropping ==
    /\ pc = "fetch_dr"
    /\ \E o \in FetchOutcomes(AppDrCells, MaxRows) :
         /\ dr' = FetchedFrame(o, "dr")
         /\ dr_err' = o.raised
    /\ pc' = "evaluate"
    /\ UNCHANGED <<rerun, creds, smart_th, drop_th, mw, mw_err, debug, status,
                   merged, correlated, alerts, next_alert, toasts, sends,
                   posts, prev_alert_ids, prev_sends,
                   normVars, htmlVars, rowVars>>

\* From the HTML debug block to the styled alert table: the debug fetches
\* are wrapped in try/except and change nothing but what is shown.
Evaluate ==
    /\ pc = "evaluate"
    /\ \E show_debug \in BOOLEAN :
         debug' = (show_debug /\ (mw = <<>> \/ dr = <<>>))
    /\ IF Insufficient(mw, dr)
       THEN /\ status' = "insufficient"
            /\ pc' = "done"
            /\ UNCHANGED <<merged, correlated, alerts>>
       ELSE /\ merged' = Merge(mw, dr)
            /\ correlated' = TRUE
            /\ alerts' = Triggered(merged', smart_th, drop_th)
            /\ IF alerts' # <<>>
               THEN status' = "alerts" /\ pc' = "dispatch"
               ELSE status' = "no_alerts" /\ pc' = "done"
    /\ UNCHANGED <<rerun, creds, smart_th, drop_th, mw, dr, mw_err, dr_err,
                   next_alert, toasts, sends, posts, prev_alert_ids,
                   prev_sends, normVars, htmlVars, rowVars>>

\* One pass of: for _, r in pretty_alerts.iterrows(): st.toast(msg);
\* send_telegram(msg).  An exception leaving send_telegram would end
\* build_app there.
Dispatch ==
    /\ pc = "dispatch"
    /\ next_alert <= Len(alerts)
    /\ \E ok \in BOOLEAN :
         LET msg == AlertMsg(alerts[next_alert])
             t == send_telegram(creds, ok)
         IN /\ toasts' = Append(toasts, msg)
            /\ sends' = Append(sends, msg)
            /\ posts' = IF t.post
                        THEN Append(posts, [msg |-> msg, ok |-> ok])
                        ELSE posts
            /\ IF t.raises
               THEN status' = "crashed" /\ pc' = "done"
               ELSE /\ pc' = IF next_alert = Len(alerts) THEN "done" ELSE pc
                    /\ UNCHANGED status
    /\ next_alert' = next_alert + 1
    /\ UNCHANGED <<rerun, creds, smart_th, drop_th, mw, dr, mw_err, dr_err,
                   debug, merged, correlated, alerts, prev_alert_ids,
                   prev_sends, normVars, htmlVars, rowVars>>

\* The next execution of build_app in the same session: everything is
\* computed anew; the thresholds are read from the sidebar again.
Rerun ==
    /\ pc = "done"
    /\ rerun' = TRUE
    /\ smart_th' \in SmartThresholds /\ drop_th' \in DropThresholds
    /\ prev_alert_ids' = {<<alerts[i].mw.match_key, alerts[i].mw.smart_sign>> :
                            i \in 1..Len(alerts)}
    /\ prev_sends' = sends
    /\ pc' = "fetch_mw" /\ status' = "running"
    /\ mw' = <<>> /\ dr' = <<>> /\ mw_err' = FALSE /\ dr_err' = FALSE
    /\ debug' = FALSE /\ merged' = <<>> /\ correlated' = FALSE
    /\ alerts' = <<>> /\ next_alert' = 1
    /\ toasts' = <<>> /\ sends' = <<>> /\ posts' = <<>>
    /\ UNCHANGED <<creds, normVars, htmlVars, rowVars>>

AppNext == FetchMoneyway \/ FetchDropping \/ Evaluate \/ Dispatch \/ Rerun

Spec == AppInit /\ [][AppNext]_vars

(* ------------------------------- the join ------------------------------ *)

Frames(cells, kind, n) ==
    {ParseFeed(d, kind) : d \in Docs(cells, n)} \ {<<>>}

JoinInit ==
    /\ pc = "join" /\ rerun = FALSE /\ creds = FALSE
    /\ smart_th = None /\ drop_th = None
    /\ mw \in Frames(MwCells, "mw", MaxJoinRows)
    /\ dr \in Frames(DrCells, "dr", MaxJoinRows)
    /\ mw_err = FALSE /\ dr_err = FALSE
    /\ debug = FALSE /\ status = "running" /\ merged = <<>>
    /\ correlated = FALSE /\ alerts = <<>> /\ next_alert = 1
    /\ toasts = <<>> /\ sends = <<>> /\ posts = <<>>
    /\ prev_alert_ids = {} /\ prev_sends = <<>>
    /\ NormIdle /\ HtmlIdle /\ RowIdle

\* merged = mw.merge(dr, ...), on two frames that are not empty.
Correlate ==
    /\ pc = "join"
    /\ merged' = Merge(mw, dr)
    /\ correlated' = TRUE
    /\ pc' = "joined"
    /\ UNCHANGED <<rerun, creds, smart_th, drop_th, mw, dr, mw_err, dr_err,
                   debug, status, alerts, next_alert, toasts, sends, posts,
                   prev_alert_ids, prev_sends, normVars, htmlVars, rowVars>>

\* alerts = merged.loc[cond], under the thresholds of the sidebar.
Trigger ==
    /\ pc = "joined"
    /\ smart_th' \in SmartThresholds /\ drop_th' \in DropThresholds
    /\ alerts' = Triggered(merged, smart_th', drop_th')
    /\ pc' = "triggered"
    /\ UNCHANGED <<rerun, creds, mw, dr, mw_err, dr_err, debug, status,
                   merged, correlated, next_alert, toasts, sends, posts,
                   prev_alert_ids, prev_sends, normVars, htmlVars, rowVars>>

JoinNext == Correlate \/ Trigger

SpecJoin == JoinInit /\ [][JoinNext]_vars

(* ------------------------------ properties ----------------------------- *)

\* The identity of an alert message: the normalized key and the outcome.
MsgId(m) == <<_match_key(m), m.sign>>

MsgIds(ms) == {MsgId(ms[i]) : i \in 1..Len(ms)}

Count(ms, id) == Cardinality({i \in 1..Len(ms) : MsgId(ms[i]) = id})

\* C1: an alert identity (normalized date, home, away, outcome) whose
\* predicate is true in two consecutive executions of build_app is handed
\* to send_telegram exactly once across the two.
C1_DispatchedOnce ==
    (pc = "done" /\ rerun) =>
        \A id \in prev_alert_ids \cap MsgIds(toasts) :
            Count(prev_sends, id) + Count(sends, id) = 1

\* The value as an exact fraction is at least the threshold.
AtLeast(v, th) == v.tag = "num" /\ v.num * th.den >= th.num * v.den

Elems(q) == {q[i] : i \in 1..Len(q)}

\* C2: a correlated pair is among the alerts iff its two signs are non-null
\* and equal, smart_pct >= smart_th and drop_pct >= drop_th; a null sign or
\* a null percentage keeps it out.
C2_AlertPredicate ==
    pc = "triggered" =>
        /\ Elems(alerts) \subseteq Elems(merged)
        /\ \A p \in Elems(merged) :
             p \in Elems(alerts) <=>
                 /\ p.mw.smart_sign \in Signs
                 /\ p.dr.drop_sign \in Signs
                 /\ p.mw.smart_sign = p.dr.drop_sign
                 /\ AtLeast(p.mw.smart_pct, smart_th)
                 /\ AtLeast(p.dr.drop_pct, drop_th)

\* Alerts at a drop equal to the threshold, beside a pair kept out by a
\* null drop percentage under equal signs.
C2_Witness ==
    /\ pc = "triggered"
    /\ \E a \in Elems(alerts) : a.dr.drop_pct = drop_th
    /\ \E p \in Elems(merged) :
         /\ p \notin Elems(alerts)
         /\ p.mw.smart_sign = p.dr.drop_sign
         /\ IsNone(p.dr.drop_pct)

MatchIdx == {q \in (1..Len(mw)) \X (1..Len(dr)) :
               mw[q[1]].match_key = dr[q[2]].match_key}

Before(r, q) == r[1] < q[1] \/ (r[1] = q[1] /\ r[2] < q[2])

\* C3: the merged frame is exactly the pairs (s, p) of equal match_key, in
\* signal-row order and, within one signal row, in price-row order: k signal
\* rows and m price rows of one key give k*m pairs, a row with no
\* counterpart is in none.
C3_InnerJoin ==
    pc \in {"joined", "triggered"} =>
        /\ Len(merged) = Cardinality(MatchIdx)
        /\ \A q \in MatchIdx :
             merged[1 + Cardinality({r \in MatchIdx : Before(r, q)})]
                 = [mw |-> mw[q[1]], dr |-> dr[q[2]]]
        /\ \A n \in 1..Len(merged) :
             LET key == merged[n].mw.match_key
                 k == Cardinality({i \in 1..Len(mw) : mw[i].match_key = key})
                 m == Cardinality({j \in 1..Len(dr) : dr[j].match_key = key})
             IN /\ merged[n].dr.match_key = key
                /\ Cardinality({i \in 1..Len(merged) :
                                  merged[i].mw.match_key = key}) = k * m

\* Two signal rows of one key around a row with no counterpart, against two
\* price rows of that key.
C3_Witness ==
    /\ pc = "joined"
    /\ Len(mw) = 3 /\ Len(dr) = 2 /\ Len(merged) = 4
    /\ mw[1].match_key = mw[3].match_key
    /\ mw[2].match_key # mw[1].match_key
    /\ dr[1] # dr[2]

OrderIdx(s) == CHOOSE i \in 1..Len(SignOrder) : SignOrder[i] = s

\* v is the greatest of the values of m that are not None.
GreatestOf(m, v) ==
    /\ v.tag = "num"
    /\ \E k \in Signs : m[k] = v
    /\ \A k \in Signs : m[k].tag = "num" => v.num * m[k].den >= m[k].num * v.den

\* s is the first of 1, X, 2 whose value is v.
FirstAt(m, s, v) ==
    /\ s \in Signs
    /\ m[s] = v
    /\ \A k \in Signs : OrderIdx(k) < OrderIdx(s) => m[k] # v

\* C4: of the three drops of a price row, negative ones included, drop_pct
\* is the greatest that is not null and drop_sign the first of 1, X, 2 that
\* attains it; both are null when all three are; drop_sign is null exactly
\* when drop_pct is.
C4_PriceDominance ==
    rd_pc = "dropping" =>
        /\ IF \E k \in Signs : ~IsNone(rd_out.drop[k])
           THEN /\ GreatestOf(rd_out.drop, rd_out.drop_pct)
                /\ FirstAt(rd_out.drop, rd_out.drop_sign, rd_out.drop_pct)
           ELSE rd_out.drop_sign = "None" /\ IsNone(rd_out.drop_pct)
        /\ (rd_out.drop_sign = "None") <=> IsNone(rd_out.drop_pct)

\* C5: of the three percentages of a signal row, smart_pct is the greatest
\* that is not null and smart_sign the first of 1, X, 2 that attains it (a
\* true 0 is reported as 0); both are null when all three are.
C5_SignalDominance ==
    rd_pc = "moneyway" =>
        /\ \A i \in 1..3 :
             rd_out.pct[SignOrder[i]] =
                 IF i <= Len(rd_in.cells.pcts) THEN rd_in.cells.pcts[i] ELSE None
        /\ IF \E k \in Signs : ~IsNone(rd_out.pct[k])
           THEN /\ GreatestOf(rd_out.pct, rd_out.smart_pct)
                /\ FirstAt(rd_out.pct, rd_out.smart_sign, rd_out.smart_pct)
           ELSE rd_out.smart_sign = "None" /\ IsNone(rd_out.smart_pct)

\* A tie at a true 0% between 1 and X, with no percentage for 2.
C5_Witness ==
    /\ rd_pc = "moneyway"
    /\ rd_out.pct["1"] = Float(0, 1) /\ rd_out.pct["X"] = Float(0, 1)
    /\ IsNone(rd_out.pct["2"])
    /\ rd_out.smart_sign = "1" /\ rd_out.smart_pct = Float(0, 1)

\* C6: _norm_team(_norm_team(x)) = _norm_team(x) for every team name x.
C6_Idempotent == nt_pc = "twice" => nt_z = nt_y

\* C7: a fetch that raises leaves an empty frame and the execution goes on;
\* with either frame empty the execution ends in the "insufficient data"
\* state: no correlation, no alert, no notification.
C7_InsufficientData ==
    /\ status # "crashed"
    /\ mw_err => (mw = <<>> /\ pc \in {"fetch_dr", "evaluate", "done"})
    /\ dr_err => (dr = <<>> /\ pc \in {"evaluate", "done"})
    /\ pc = "fetch_dr" => ENABLED FetchDropping
    /\ pc = "evaluate" => ENABLED Evaluate
    /\ (pc \in {"dispatch", "done"} /\ (mw = <<>> \/ dr = <<>>)) =>
           /\ pc = "done" /\ status = "insufficient"
           /\ ~correlated /\ merged = <<>> /\ alerts = <<>>
           /\ toasts = <<>> /\ sends = <<>> /\ posts = <<>>

\* The Moneyway fetch raised, the Dropping odds feed has rows, and the
\* execution ended with "insufficient data".
C7_Witness ==
    /\ pc = "done" /\ status = "insufficient"
    /\ mw_err /\ ~dr_err /\ dr # <<>>

\* C8: send_telegram lets no exception out; whichever posts fail, every
\* alert of the execution gets its toast and its send_telegram call, one per
\* alert row in alert order; without credentials nothing is posted.
C8_BestEffort ==
    /\ status # "crashed"
    /\ (pc \in {"dispatch", "done"} /\ status = "alerts") =>
           /\ toasts = [i \in 1..(next_alert - 1) |-> AlertMsg(alerts[i])]
           /\ sends = toasts
           /\ pc = "done" => Len(sends) = Len(alerts)
           /\ pc = "dispatch" => ENABLED Dispatch
           /\ ~creds => posts = <<>>
           /\ creds => /\ Len(posts) = Len(sends)
                       /\ \A i \in 1..Len(posts) : posts[i].msg = sends[i]

\* Two or more alerts, the post of the first failed, and all were sent.
C8_Witness ==
    /\ pc = "done" /\ status = "alerts" /\ creds
    /\ Len(alerts) >= 2 /\ Len(posts) = Len(alerts)
    /\ ~posts[1].ok

DropPairs == {<<"1", 1, 2>>, <<"X", 3, 4>>, <<"2", 5, 6>>}

Gets == SelectSeq(gh_log, LAMBDA e : e.req = "get")

Bodies == SelectSeq(gh_log, LAMBDA e : e.req # "warmup" /\ e.resp.kind = "long")

LastError(g) ==
    g[CHOOSE i \in 1..Len(g) :
        /\ g[i].resp.kind = "error"
        /\ \A j \in (i + 1)..Len(g) : g[j].resp.kind # "error"].resp.id

\* C10: after the cloudscraper attempt and the warm-up, _get_html makes at
\* most 3 session attempts and ends; it returns the first body of more than
\* 500 characters and attempts nothing after it; with no such body it raises
\* the error of the last session attempt that raised if any of the 3 did,
\* and returns the empty text only when none did.
C10_RetryProtocol ==
    /\ Len(Gets) = gh_tries /\ gh_tries <= Attempts
    /\ Len(gh_log) <= Attempts + 2
    /\ \A i \in 1..Len(gh_log) :
         /\ gh_log[i].req = "scraper" => i = 1
         /\ gh_log[i].req = "get" => (i > 1 /\ gh_log[i - 1].req \in {"warmup", "get"})
    /\ gh_pc \notin {"returned", "raised"} => ENABLED HtmlNext
    /\ Bodies # <<>> =>
         /\ gh_pc = "returned" /\ gh_result = Bodies[1].resp.id
         /\ Len(Bodies) = 1 /\ gh_log[Len(gh_log)] = Bodies[1]
    /\ gh_pc = "raised" =>
         /\ Bodies = <<>> /\ Len(Gets) = Attempts
         /\ \E i \in 1..Len(Gets) : Gets[i].resp.kind = "error"
         /\ gh_result = LastError(Gets)
    /\ (gh_pc = "returned" /\ Bodies = <<>>) =>
         /\ gh_result = "" /\ Len(Gets) = Attempts
         /\ \A i \in 1..Len(Gets) : Gets[i].resp.kind # "error"

\* Raised the error of the first attempt although the later two came back
\* short without an error.
C10_Witness ==
    /\ gh_pc = "raised" /\ gh_result = "E1"
    /\ Gets[1].resp.kind = "error"
    /\ Gets[2].resp.kind = "short" /\ Gets[3].resp.kind = "short"

====
